---- MODULE Spec2Model ----
(***************************************************************************)
(* A model of kincir: the bubblewrap argument builder (kincir_bwrap) and   *)
(* the runner manifest validation (kincir_api).                            *)
(*                                                                         *)
(* Strings are TLA+ strings, Vec<T> is a sequence, HashMap<K,V> is a       *)
(* function on its key set, HashSet<T> is a set, Option<T> is the empty    *)
(* set (None) or a one-element set (Some(x)).                              *)
(***************************************************************************)
EXTENDS Integers, Sequences, FiniteSets

(***************************************************************************)
(* Bounds of the model.                                                    *)
(***************************************************************************)
\* longest fs_options vector the driver builds
MaxFs == 2
\* most arguments of the inner command
MaxArgs == 2
\* most builder calls recorded in one environment scenario
MaxCalls == 4
\* most declared bin_deps / files_deps of a manifest
MaxDeps == 2

(***************************************************************************)
(* Option<T>                                                               *)
(***************************************************************************)
None == {}
Some(x) == {x}
IsSome(o) == o # {}
Unwrap(o) == CHOOSE x \in o : TRUE

(***************************************************************************)
(* Integer formatting: format!("{p:o}") and to_string().                   *)
(***************************************************************************)
Digit(d) ==
    CASE d = 0 -> "0" [] d = 1 -> "1" [] d = 2 -> "2" [] d = 3 -> "3"
      [] d = 4 -> "4" [] d = 5 -> "5" [] d = 6 -> "6" [] d = 7 -> "7"
      [] d = 8 -> "8" [] d = 9 -> "9"

RECURSIVE ToBase(_, _)
ToBase(n, b) == IF n < b THEN Digit(n) ELSE ToBase(n \div b, b) \o Digit(n % b)

\* format!("{p:o}")
FormatOctal(p) == ToBase(p, 8)
\* i.to_string() of a non-negative integer
to_string(i) == ToBase(i, 10)

RECURSIVE Flatten(_)
Flatten(ss) == IF ss = << >> THEN << >> ELSE Head(ss) \o Flatten(Tail(ss))

SeqsUpTo(S, n) == UNION { [1..k -> S] : k \in 0..n }
Range(s) == { s[i] : i \in DOMAIN s }
\* every enumeration, without repetition, of the finite set S
Orders(S) == { s \in [1..Cardinality(S) -> S] : Range(s) = S }

(***************************************************************************)
(* NsFlags (namespace.rs): the bit set, in the order the bitflags! block   *)
(* declares the constants, which is the order iter() yields them.          *)
(***************************************************************************)
FlagOrder ==
    << "USER", "USER_TRY", "IPC", "PID", "NET", "UTS", "CGROUPS", "CGROUPS_TRY",
       "ALL", "DISABLE_USER_NS", "ASSERT_DISABLE_USER_NS", "SHARE_NET",
       "DIE_WITH_PARENT", "NEW_SESSION" >>

NsFlags == Range(FlagOrder)

\* the match of NsFlags::to_options
FlagArg(flag) ==
    CASE flag = "CGROUPS_TRY" -> "--unshare-cgroup-try"
      [] flag = "CGROUPS" -> "--unshare-cgroup"
      [] flag = "USER_TRY" -> "--unshare-user-try"
      [] flag = "USER" -> "--unshare-user"
      [] flag = "SHARE_NET" -> "--share-net"
      [] flag = "IPC" -> "--unshare-ipc"
      [] flag = "NET" -> "--unshare-net"
      [] flag = "PID" -> "--unshare-pid"
      [] flag = "UTS" -> "--unshare-uts"
      [] flag = "DISABLE_USER_NS" -> "--disable-userns"
      [] flag = "ASSERT_DISABLE_USER_NS" -> "--assert-disable-userns"
      [] flag = "ALL" -> "--unshare-all"
      [] flag = "NEW_SESSION" -> "--new-session"
      [] flag = "DIE_WITH_PARENT" -> "--die-with-parent"

\* the flags NsFlags::sanitize removes when ALL is present
UnshareFlags ==
    { "USER", "USER_TRY", "IPC", "PID", "NET", "UTS", "CGROUPS", "CGROUPS_TRY" }

\* a sanitize that forgets the ALL rule
sanitize_keep_unshare(f) ==
    LET b == IF "USER" \in f THEN f \ {"USER_TRY"} ELSE f
    IN  IF "CGROUPS" \in b THEN b \ {"CGROUPS_TRY"} ELSE b

\* a sanitize that forgets the _TRY rules
sanitize_keep_try(f) == IF "ALL" \in f THEN f \ UnshareFlags ELSE f

\* NsFlags::sanitize
sanitize(f) ==
    LET a == IF "ALL" \in f THEN f \ UnshareFlags ELSE f
        b == IF "USER" \in a THEN a \ {"USER_TRY"} ELSE a
    IN  IF "CGROUPS" \in b THEN b \ {"CGROUPS_TRY"} ELSE b

\* self.iter(): the contained flags in declaration order
RECURSIVE IterFrom(_, _)
IterFrom(f, i) ==
    IF i > Len(FlagOrder) THEN << >>
    ELSE (IF FlagOrder[i] \in f THEN << FlagOrder[i] >> ELSE << >>) \o IterFrom(f, i + 1)

\* NsFlags::to_options
NsFlags_to_options(f) ==
    LET s == sanitize(f)
        it == IterFrom(s, 1)
    IN  [ i \in 1..Len(it) |-> FlagArg(it[i]) ]

\* a sanitize_flags that does not add the flags uid, gid and hostname imply
sanitize_flags_as_given(f, g, u, h) == sanitize(f)

\* the flags NsOptions::sanitize_flags leaves in self.flags
sanitize_flags(f, g, u, h) ==
    LET a == IF IsSome(g) THEN f \cup {"USER"} ELSE f
        b == IF IsSome(u) THEN a \cup {"USER"} ELSE a
        c == IF IsSome(h) THEN b \cup {"UTS"} ELSE b
    IN  sanitize(c)

\* a to_options that pushes the uid before the gid
NsOptions_to_options_uid_first(f, g, u, h, c) ==
    NsFlags_to_options(sanitize_flags(f, g, u, h))
      \o (IF IsSome(u) THEN << "--uid", to_string(Unwrap(u)) >> ELSE << >>)
      \o (IF IsSome(g) THEN << "--gid", to_string(Unwrap(g)) >> ELSE << >>)
      \o (IF IsSome(h) THEN << "--hostname", Unwrap(h) >> ELSE << >>)
      \o (IF IsSome(c) THEN << "--chdir", Unwrap(c) >> ELSE << >>)

\* the tokens of NsOptions::to_options
NsOptions_to_options(f, g, u, h, c) ==
    NsFlags_to_options(sanitize_flags(f, g, u, h))
      \o (IF IsSome(g) THEN << "--gid", to_string(Unwrap(g)) >> ELSE << >>)
      \o (IF IsSome(u) THEN << "--uid", to_string(Unwrap(u)) >> ELSE << >>)
      \o (IF IsSome(h) THEN << "--hostname", Unwrap(h) >> ELSE << >>)
      \o (IF IsSome(c) THEN << "--chdir", Unwrap(c) >> ELSE << >>)

(***************************************************************************)
(* FsOptions (fs_options.rs)                                               *)
(***************************************************************************)
\* a vec_append!(@perm) that prints the permission in decimal
AppendPermDecimal(permission) ==
    IF IsSome(permission) THEN << "--perm", to_string(Unwrap(permission)) >> ELSE << >>

\* vec_append!(@perm: ...)
AppendPerm(permission) ==
    IF IsSome(permission) THEN << "--perm", FormatOctal(Unwrap(permission)) >> ELSE << >>

\* vec_append!(@size: ...)
AppendSize(size) ==
    IF IsSome(size) THEN << "--size", to_string(Unwrap(size)) >> ELSE << >>

\* bwrap_flag!(@none: flag)
FlagNone(flag) == "--" \o flag

\* bwrap_flag!(@ro: flag, bool)
FlagRo(flag, ro) == IF ro THEN "--ro-" \o flag ELSE "--" \o flag

\* bwrap_flag!(@try: flag, bool)
FlagTry(flag, try) == IF try THEN "--" \o flag \o "-try" ELSE "--" \o flag \o ""

\* bwrap_flag!(@rotry: flag, bool_ro, bool_try)
FlagRoTry(flag, ro, try) ==
    CASE ro /\ try -> "--ro-" \o flag \o "-try"
      [] ~ro /\ try -> "--" \o flag \o "-try"
      [] ro /\ ~try -> "--ro" \o flag \o ""
      [] ~ro /\ ~try -> "--" \o flag \o ""

\* FsOptions::to_option
to_option(o) ==
    CASE o.kind = "Chmod" ->
            << "--chmod", FormatOctal(o.permission), o.destination >>
      [] o.kind = "Data" ->
            AppendPerm(o.permission)
              \o << FlagRo("data-bind", o.read_only), to_string(o.source), o.destination >>
      [] o.kind = "File" ->
            AppendPerm(o.permission)
              \o << FlagNone("file"), to_string(o.source), o.destination >>
      [] o.kind = "Symlink" ->
            << FlagNone("symlink"), o.source, o.destination >>
      [] o.kind = "TempFs" ->
            AppendPerm(o.permission) \o AppendSize(o.size)
              \o << FlagNone("tmpfs"), o.destination >>
      [] o.kind = "Dir" ->
            AppendPerm(o.permission) \o << FlagNone("dir"), o.destination >>
      [] o.kind = "MQueue" ->
            AppendPerm(o.permission) \o << FlagNone("mqueue"), o.destination >>
      [] o.kind = "Bind" ->
            AppendPerm(o.permission)
              \o << FlagRoTry("bind", o.read_only, o.try_), o.source, o.destination >>
      [] o.kind = "DevBind" ->
            AppendPerm(o.permission)
              \o << FlagTry("dev-bind", o.try_), o.source, o.destination >>
      [] o.kind = "ProcBind" ->
            AppendPerm(o.permission)
              \o << FlagTry("proc-bind", o.try_), o.source, o.destination >>
      [] o.kind = "Dev" ->
            AppendPerm(o.permission) \o << FlagNone("dev"), o.destination >>
      [] o.kind = "Proc" ->
            AppendPerm(o.permission) \o << FlagNone("proc"), o.destination >>

(***************************************************************************)
(* State.                                                                  *)
(*   BwrapCommand (lib.rs): bwrap, clear_env, env, unset_env, fs_options,  *)
(*     command (program, args) and ns_options (flags, gid, uid, hostname,  *)
(*     cwd; namespace.rs).                                                 *)
(*   ret: the Vec<OsString> returned by the last call when that call was   *)
(*     build_args or a to_option(s) lowering, otherwise the empty vector   *)
(*     (build_args never returns an empty vector).                         *)
(*   hist: the builder calls made so far, kept while logging is set (the   *)
(*     environment scenarios); logging never changes.                      *)
(*   opt: the FsOptions value handed to FsOptions::to_option.              *)
(*   manifest: the RunnerManifest being validated (runner.rs); its fields  *)
(*     name, bin_deps, files_deps and no_default_binary.                   *)
(*   path_missing: the command names which::which finds nowhere on PATH.   *)
(*   host_files: the host paths for which Path::exists answers true.       *)
(*   result: what the last verify_bin_deps / verify_files_deps /           *)
(*     deserialization returned.                                           *)
(*   doc: the fields of the manifest.yml handed to the deserializer.       *)
(*   run: the Run (runner.rs): its show_trace and its RunState.            *)
(*   child: the launcher child process of the run.                         *)
(*   timer: the timeout timer of the run.                                  *)
(***************************************************************************)
VARIABLES bwrap, clear_env, env, unset_env, fs_options, flags, gid, uid,
          hostname, cwd, program, args, ret, hist, logging, opt,
          manifest, path_missing, host_files, result,
          doc, run, child, timer

builder == << bwrap, clear_env, env, unset_env, fs_options, flags, gid, uid,
              hostname, cwd, program, args >>
runner == << manifest, path_missing, host_files, result >>
service == << doc, run, child, timer >>
vars == << bwrap, clear_env, env, unset_env, fs_options, flags, gid, uid,
           hostname, cwd, program, args, ret, hist, logging, opt,
           manifest, path_missing, host_files, result, doc, run, child, timer >>

\* the empty HashMap
EmptyMap == [ k \in {} |-> "" ]

\* HashMap::insert
MapInsert(m, k, v) == [ x \in DOMAIN m \cup {k} |-> IF x = k THEN v ELSE m[x] ]
\* HashMap::remove
MapRemove(m, k) == [ x \in DOMAIN m \ {k} |-> m[x] ]

\* one builder call, as the log keeps it
Call(op, a, b) == [ op |-> op, a |-> a, b |-> b ]

\* the caller makes one more call: at most MaxCalls calls are logged
Log(c) ==
    /\ logging => Len(hist) < MaxCalls
    /\ hist' = IF logging THEN Append(hist, c) ELSE hist
    /\ UNCHANGED logging

\* the FsOptions value used where none is being lowered
NoOpt == [ kind |-> "none" ]

\* no manifest is being validated
NoManifest ==
    [ name |-> "", bin_deps |-> << >>, files_deps |-> << >>, no_default_binary |-> FALSE ]
NoResult == [ fn |-> "none", tag |-> "none", val |-> "" ]
NoRunner ==
    /\ manifest = NoManifest
    /\ path_missing = {}
    /\ host_files = {}
    /\ result = NoResult

\* RunState::NotLaunched
NotLaunched == [ tag |-> "NotLaunched", started |-> None, output |-> None ]
\* no manifest.yml is being read, and no Run is being driven
NoDoc == [ kind |-> "none" ]
NoService ==
    /\ doc = NoDoc
    /\ run = [ show_trace |-> FALSE, state |-> NotLaunched ]
    /\ child = "none"
    /\ timer = "unarmed"

(***************************************************************************)
(* Inputs of the builder scenarios.                                        *)
(***************************************************************************)
Keys == { "K1", "K2" }
Vals == { "a", "b" }
Paths == { "/a", "/b" }
ArgVals == { "x", "--" }
FlagInputs == { { "USER", "USER_TRY" }, { "ALL" } }
FsInputs ==
    { [ kind |-> "Bind", read_only |-> TRUE, source |-> "/h", destination |-> "/g",
        permission |-> Some(493), try_ |-> TRUE ],
      [ kind |-> "TempFs", destination |-> "/tmp", permission |-> None,
        size |-> Some(1024) ] }
Launchers == { None, Some("/opt/bwrap") }

\* BwrapCommand::new(cmd)
New(cmd) ==
    /\ bwrap = None
    /\ clear_env = FALSE
    /\ env = EmptyMap
    /\ unset_env = {}
    /\ fs_options = << >>
    /\ flags = {}
    /\ gid = None
    /\ uid = None
    /\ hostname = None
    /\ cwd = None
    /\ program = cmd
    /\ args = << >>

(***************************************************************************)
(* The builder's operations (lib.rs).  Every setter returns &mut Self, so  *)
(* nothing is returned to the caller: ret becomes empty.                   *)
(***************************************************************************)
\* BwrapCommand::bwrap
Bwrap(b) ==
    /\ bwrap' = b
    /\ ret' = << >>
    /\ Log(Call("bwrap", b, ""))
    /\ UNCHANGED << clear_env, env, unset_env, fs_options, flags, gid, uid,
                    hostname, cwd, program, args, opt, runner, service >>

\* a clear_env that keeps the entries
ClearEnvKeeps(b) ==
    /\ clear_env' = b
    /\ ret' = << >>
    /\ Log(Call("clear_env", b, ""))
    /\ UNCHANGED << bwrap, env, unset_env, fs_options, flags, gid, uid, hostname,
                    cwd, program, args, opt, runner, service >>

\* BwrapCommand::clear_env
ClearEnv(b) ==
    /\ IF b
         THEN /\ clear_env' = TRUE
              /\ env' = EmptyMap
              /\ unset_env' = {}
         ELSE /\ clear_env' = FALSE
              /\ UNCHANGED << env, unset_env >>
    /\ ret' = << >>
    /\ Log(Call("clear_env", b, ""))
    /\ UNCHANGED << bwrap, fs_options, flags, gid, uid, hostname, cwd, program,
                    args, opt, runner, service >>

\* an add_env that keeps the first value of a key
AddEnvKeepsFirst(k, v) ==
    /\ env' = IF k \in DOMAIN env THEN env ELSE MapInsert(env, k, v)
    /\ ret' = << >>
    /\ Log(Call("add_env", k, v))
    /\ UNCHANGED << bwrap, clear_env, unset_env, fs_options, flags, gid, uid,
                    hostname, cwd, program, args, opt, runner, service >>

\* BwrapCommand::add_env
AddEnv(k, v) ==
    /\ env' = MapInsert(env, k, v)
    /\ ret' = << >>
    /\ Log(Call("add_env", k, v))
    /\ UNCHANGED << bwrap, clear_env, unset_env, fs_options, flags, gid, uid,
                    hostname, cwd, program, args, opt, runner, service >>

\* BwrapCommand::add_unset_env
AddUnsetEnv(k) ==
    /\ unset_env' = unset_env \cup {k}
    /\ ret' = << >>
    /\ Log(Call("add_unset_env", k, ""))
    /\ UNCHANGED << bwrap, clear_env, env, fs_options, flags, gid, uid, hostname,
                    cwd, program, args, opt, runner, service >>

\* BwrapCommand::remove_env
RemoveEnv(k) ==
    /\ env' = MapRemove(env, k)
    /\ ret' = << >>
    /\ Log(Call("remove_env", k, ""))
    /\ UNCHANGED << bwrap, clear_env, unset_env, fs_options, flags, gid, uid,
                    hostname, cwd, program, args, opt, runner, service >>

\* BwrapCommand::remove_unset_env
RemoveUnsetEnv(k) ==
    /\ unset_env' = unset_env \ {k}
    /\ ret' = << >>
    /\ Log(Call("remove_unset_env", k, ""))
    /\ UNCHANGED << bwrap, clear_env, env, fs_options, flags, gid, uid, hostname,
                    cwd, program, args, opt, runner, service >>

\* an add_fs_options that puts the new entry in front
AddFsOptionsFront(o) ==
    /\ Len(fs_options) < MaxFs
    /\ fs_options' = << o >> \o fs_options
    /\ ret' = << >>
    /\ Log(Call("add_fs_options", o, ""))
    /\ UNCHANGED << bwrap, clear_env, env, unset_env, flags, gid, uid, hostname,
                    cwd, program, args, opt, runner, service >>

\* BwrapCommand::add_fs_options
AddFsOptions(o) ==
    /\ Len(fs_options) < MaxFs
    /\ fs_options' = Append(fs_options, o)
    /\ ret' = << >>
    /\ Log(Call("add_fs_options", o, ""))
    /\ UNCHANGED << bwrap, clear_env, env, unset_env, flags, gid, uid, hostname,
                    cwd, program, args, opt, runner, service >>

\* a set_cwd that keeps a directory already set
SetCwdKeepsFirst(p) ==
    /\ cwd' = IF IsSome(cwd) THEN cwd ELSE Some(p)
    /\ ret' = << >>
    /\ Log(Call("set_cwd", p, ""))
    /\ UNCHANGED << bwrap, clear_env, env, unset_env, fs_options, flags, gid, uid,
                    hostname, program, args, opt, runner, service >>

\* BwrapCommand::set_cwd (NsOptions::set_cwd)
SetCwd(p) ==
    /\ cwd' = Some(p)
    /\ ret' = << >>
    /\ Log(Call("set_cwd", p, ""))
    /\ UNCHANGED << bwrap, clear_env, env, unset_env, fs_options, flags, gid, uid,
                    hostname, program, args, opt, runner, service >>

\* BwrapCommand::unset_cwd (NsOptions::unset_cwd)
UnsetCwd ==
    /\ cwd' = None
    /\ ret' = << >>
    /\ Log(Call("unset_cwd", "", ""))
    /\ UNCHANGED << bwrap, clear_env, env, unset_env, fs_options, flags, gid, uid,
                    hostname, program, args, opt, runner, service >>

\* BwrapCommand::new_session
NewSession(enable) ==
    /\ flags' = IF enable THEN flags \cup {"NEW_SESSION"} ELSE flags \ {"NEW_SESSION"}
    /\ ret' = << >>
    /\ Log(Call("new_session", enable, ""))
    /\ UNCHANGED << bwrap, clear_env, env, unset_env, fs_options, gid, uid,
                    hostname, cwd, program, args, opt, runner, service >>

\* BwrapCommand::add_namespace_flags
AddNamespaceFlags(f) ==
    /\ flags' = flags \cup f
    /\ ret' = << >>
    /\ Log(Call("add_namespace_flags", f, ""))
    /\ UNCHANGED << bwrap, clear_env, env, unset_env, fs_options, gid, uid,
                    hostname, cwd, program, args, opt, runner, service >>

\* BwrapCommand::set_namespace_flags
SetNamespaceFlags(f) ==
    /\ flags' = f
    /\ ret' = << >>
    /\ Log(Call("set_namespace_flags", f, ""))
    /\ UNCHANGED << bwrap, clear_env, env, unset_env, fs_options, gid, uid,
                    hostname, cwd, program, args, opt, runner, service >>

\* BwrapCommand::remove_namespace_flags
RemoveNamespaceFlags(f) ==
    /\ flags' = flags \ f
    /\ ret' = << >>
    /\ Log(Call("remove_namespace_flags", f, ""))
    /\ UNCHANGED << bwrap, clear_env, env, unset_env, fs_options, gid, uid,
                    hostname, cwd, program, args, opt, runner, service >>

\* BwrapCommand::arg
Arg(a) ==
    /\ Len(args) < MaxArgs
    /\ args' = Append(args, a)
    /\ ret' = << >>
    /\ Log(Call("arg", a, ""))
    /\ UNCHANGED << bwrap, clear_env, env, unset_env, fs_options, flags, gid, uid,
                    hostname, cwd, program, opt, runner, service >>

(***************************************************************************)
(* BwrapCommand::build_args.  The two for loops walk a HashMap and a       *)
(* HashSet, whose iteration order is arbitrary: eo and uo are the orders   *)
(* the loops happen to take.                                               *)
(***************************************************************************)
EnvTokens(eo) == Flatten([ i \in 1..Len(eo) |-> << "--setenv", eo[i], env[eo[i]] >> ])
UnsetTokens(uo) == Flatten([ i \in 1..Len(uo) |-> << "--unsetenv", uo[i] >> ])
FsTokens == Flatten([ i \in 1..Len(fs_options) |-> to_option(fs_options[i]) ])

\* an assembly that lowers the namespace options before the mounts
ArgvNsFirst(eo, uo) ==
    (IF clear_env THEN << "--clearenv" >> ELSE << >>)
      \o EnvTokens(eo)
      \o UnsetTokens(uo)
      \o NsOptions_to_options(flags, gid, uid, hostname, cwd)
      \o FsTokens
      \o << "--" >>
      \o << program >>
      \o args

\* an assembly that forgets the separator
ArgvNoSeparator(eo, uo) ==
    (IF clear_env THEN << "--clearenv" >> ELSE << >>)
      \o EnvTokens(eo)
      \o UnsetTokens(uo)
      \o FsTokens
      \o NsOptions_to_options(flags, gid, uid, hostname, cwd)
      \o << program >>
      \o args

\* the vector v of build_args
Argv(eo, uo) ==
    (IF clear_env THEN << "--clearenv" >> ELSE << >>)
      \o EnvTokens(eo)
      \o UnsetTokens(uo)
      \o FsTokens
      \o NsOptions_to_options(flags, gid, uid, hostname, cwd)
      \o << "--" >>
      \o << program >>
      \o args

\* a build_args that moves the arguments out of the command
BuildArgsDrains ==
    /\ \E eo \in Orders(DOMAIN env), uo \in Orders(unset_env) : ret' = Argv(eo, uo)
    /\ flags' = sanitize_flags(flags, gid, uid, hostname)
    /\ args' = << >>
    /\ Log(Call("build_args", "", ""))
    /\ UNCHANGED << bwrap, clear_env, env, unset_env, fs_options, gid, uid,
                    hostname, cwd, program, opt, runner, service >>

\* BwrapCommand::build_args
BuildArgs ==
    /\ \E eo \in Orders(DOMAIN env), uo \in Orders(unset_env) : ret' = Argv(eo, uo)
    /\ flags' = sanitize_flags(flags, gid, uid, hostname)
    /\ Log(Call("build_args", "", ""))
    /\ UNCHANGED << bwrap, clear_env, env, unset_env, fs_options, gid, uid,
                    hostname, cwd, program, args, opt, runner, service >>

(***************************************************************************)
(* The builder driven by an arbitrary caller.                              *)
(***************************************************************************)
Init ==
    /\ New("echo")
    /\ ret = << >>
    /\ hist = << >>
    /\ logging = FALSE
    /\ opt = NoOpt
    /\ NoRunner
    /\ NoService

Next ==
    \/ \E b \in Launchers : Bwrap(b)
    \/ \E b \in BOOLEAN : ClearEnv(b)
    \/ \E k \in Keys : AddEnv(k, "a")
    \/ \E k \in Keys : AddUnsetEnv(k)
    \/ \E k \in Keys : RemoveEnv(k)
    \/ \E k \in Keys : RemoveUnsetEnv(k)
    \/ \E o \in FsInputs : AddFsOptions(o)
    \/ SetCwd("/a")
    \/ UnsetCwd
    \/ \E b \in BOOLEAN : NewSession(b)
    \/ \E f \in FlagInputs : AddNamespaceFlags(f)
    \/ \E f \in FlagInputs : SetNamespaceFlags(f)
    \/ \E f \in FlagInputs : RemoveNamespaceFlags(f)
    \/ \E a \in ArgVals : Arg(a)
    \/ BuildArgs

Spec == Init /\ [][Next]_vars

(***************************************************************************)
(* The environment scenarios: a caller that makes at most MaxCalls calls   *)
(* among the env setters and build_args, every call logged.                *)
(***************************************************************************)
InitEnv ==
    /\ New("echo")
    /\ ret = << >>
    /\ hist = << >>
    /\ logging = TRUE
    /\ opt = NoOpt
    /\ NoRunner
    /\ NoService

NextEnv ==
    \/ \E b \in BOOLEAN : ClearEnv(b)
    \/ \E k \in Keys, v \in Vals : AddEnv(k, v)
    \/ \E k \in Keys : AddUnsetEnv(k)
    \/ \E k \in Keys : RemoveEnv(k)
    \/ \E k \in Keys : RemoveUnsetEnv(k)
    \/ BuildArgs

SpecEnv == InitEnv /\ [][NextEnv]_vars

(***************************************************************************)
(* Reading an argument vector.                                             *)
(***************************************************************************)
\* the positions of v holding the token t
Positions(v, t) == { i \in 1..Len(v) : v[i] = t }
\* how many `--setenv k x` triples v holds
CountSetenv(v, k, x) ==
    Cardinality({ i \in 1..(Len(v) - 2) :
                    v[i] = "--setenv" /\ v[i + 1] = k /\ v[i + 2] = x })
\* v holds a `--setenv k <anything>` triple
SetsKey(v, k) == \E i \in 1..(Len(v) - 2) : v[i] = "--setenv" /\ v[i + 1] = k
\* v holds an `--unsetenv k` pair
UnsetsKey(v, k) == \E i \in 1..(Len(v) - 1) : v[i] = "--unsetenv" /\ v[i + 1] = k

\* build_args has just returned
Built == ret # << >>

(***************************************************************************)
(* C1: build_args returns, in this order, `--clearenv` (only when          *)
(* clear_env is set), the `--setenv k v` triples of env, the `--unsetenv   *)
(* k` pairs of unset_env, the lowered tokens of the fs entries in order,   *)
(* the namespace tokens, `--`, command.program and command.args verbatim.  *)
(***************************************************************************)
C1_SectionOrder ==
    Built =>
      LET ne == Cardinality(DOMAIN env)
          nu == Cardinality(unset_env)
          nst == NsOptions_to_options(flags, gid, uid, hostname, cwd)
          e0 == IF clear_env THEN 1 ELSE 0
          u0 == e0 + 3 * ne
          f0 == u0 + 2 * nu
          n0 == f0 + Len(FsTokens)
          s0 == n0 + Len(nst)
      IN  /\ Len(ret) = s0 + 2 + Len(args)
          /\ clear_env => ret[1] = "--clearenv"
          /\ \A j \in 0..(ne - 1) :
                /\ ret[e0 + 3 * j + 1] = "--setenv"
                /\ ret[e0 + 3 * j + 2] \in DOMAIN env
                /\ ret[e0 + 3 * j + 3] = env[ret[e0 + 3 * j + 2]]
          /\ { ret[e0 + 3 * j + 2] : j \in 0..(ne - 1) } = DOMAIN env
          /\ \A j \in 0..(nu - 1) : ret[u0 + 2 * j + 1] = "--unsetenv"
          /\ { ret[u0 + 2 * j + 2] : j \in 0..(nu - 1) } = unset_env
          /\ SubSeq(ret, f0 + 1, n0) = FsTokens
          /\ SubSeq(ret, n0 + 1, s0) = nst
          /\ ret[s0 + 1] = "--"
          /\ ret[s0 + 2] = program
          /\ SubSeq(ret, s0 + 3, Len(ret)) = args

\* every section of the vector is present, with two entries where it can have two
C1_Witness ==
    /\ Built
    /\ clear_env
    /\ Cardinality(DOMAIN env) = 2
    /\ Cardinality(unset_env) = 2
    /\ Len(fs_options) = 2
    /\ fs_options[1] # fs_options[2]
    /\ "NEW_SESSION" \in flags
    /\ IsSome(cwd)
    /\ Len(args) = 2

(***************************************************************************)
(* C2 as stated: the output of build_args contains exactly one `--` token  *)
(* and command.program is the token right after it, whatever the strings   *)
(* given to the builder.                                                   *)
(***************************************************************************)
C2_OneSeparatorAlways ==
    Built =>
      /\ Cardinality(Positions(ret, "--")) = 1
      /\ \A i \in Positions(ret, "--") : i < Len(ret) /\ ret[i + 1] = program

\* the strings the caller handed to the builder that build_args copies verbatim
CallerStrings ==
    DOMAIN env \cup Range(env) \cup unset_env \cup Range(args) \cup {program}
      \cup hostname \cup cwd
      \cup UNION { { o.destination } \cup
                   (IF o.kind \in { "Bind", "DevBind", "ProcBind", "Symlink" }
                      THEN { o.source } ELSE {}) : o \in Range(fs_options) }

(***************************************************************************)
(* C2 amended: when none of the strings given to the builder (env keys and *)
(* values, unset keys, fs paths, hostname, cwd, program, args) is itself   *)
(* `--`, the output of build_args contains exactly one `--` token and      *)
(* command.program is the token right after it.                            *)
(***************************************************************************)
C2_OneSeparator ==
    (Built /\ "--" \notin CallerStrings) =>
      /\ Cardinality(Positions(ret, "--")) = 1
      /\ \A i \in Positions(ret, "--") : i < Len(ret) /\ ret[i + 1] = program

\* a built vector with env, mounts, cwd and two plain arguments
C2_Witness ==
    /\ Built
    /\ "--" \notin CallerStrings
    /\ Len(args) = 2
    /\ DOMAIN env # {}
    /\ fs_options # << >>
    /\ IsSome(cwd)

(***************************************************************************)
(* The call log.                                                           *)
(***************************************************************************)
\* the arguments of a call are read only once its name is known: the calls
\* take arguments of different types
IsCall(c, op, a, b) == c.op = op /\ c.a = a /\ c.b = b
\* the last logged call is build_args, whose result ret holds
BuiltLogged == Built /\ hist # << >> /\ hist[Len(hist)].op = "build_args"
\* call c takes key k out of env
DropsEnvKey(c, k) ==
    \/ c.op = "remove_env" /\ c.a = k
    \/ c.op = "clear_env" /\ c.a = TRUE
\* call c writes key k of env
WritesEnvKey(c, k) == c.op = "add_env" /\ c.a = k

(***************************************************************************)
(* C6: after add_env(k, v1) followed, with calls in between that neither   *)
(* remove k nor clear the env, by add_env(k, v2) (and nothing that touches *)
(* k afterwards), build_args contains exactly one `--setenv k v2` triple   *)
(* and no `--setenv k v1`.                                                 *)
(***************************************************************************)
C6_LastWriteWins ==
    BuiltLogged =>
      \A i \in 1..Len(hist), j \in 1..Len(hist) :
        ( /\ i < j
          /\ hist[i].op = "add_env"
          /\ hist[j].op = "add_env"
          /\ hist[j].a = hist[i].a
          /\ \A m \in (i + 1)..(j - 1) : ~DropsEnvKey(hist[m], hist[i].a)
          /\ \A m \in (j + 1)..Len(hist) :
                ~DropsEnvKey(hist[m], hist[i].a) /\ ~WritesEnvKey(hist[m], hist[i].a) )
        => /\ CountSetenv(ret, hist[j].a, hist[j].b) = 1
           /\ \A x \in Vals \ { hist[j].b } : CountSetenv(ret, hist[j].a, x) = 0

\* the scenario of tests::env1
C6_Witness ==
    /\ Built
    /\ Len(hist) = 4
    /\ IsCall(hist[1], "add_env", "K1", "a")
    /\ IsCall(hist[2], "add_unset_env", "K2", "")
    /\ IsCall(hist[3], "add_env", "K1", "b")
    /\ IsCall(hist[4], "build_args", "", "")
    /\ ret = << "--setenv", "K1", "b", "--unsetenv", "K2", "--", "echo" >>

(***************************************************************************)
(* C7: clear_env(true) sets the flag and drops every env and unset_env     *)
(* entry added before it, entries added after it are kept, so build_args   *)
(* yields `--clearenv` and only the later entries; clear_env(false) only   *)
(* resets the flag and leaves the env and unset_env entries as they are.   *)
(***************************************************************************)
\* the position of the last clear_env call of the log, 0 when there is none
LastClear ==
    LET cs == { i \in 1..Len(hist) : hist[i].op = "clear_env" }
    IN  IF cs = {} THEN 0 ELSE CHOOSE i \in cs : \A m \in cs : m <= i

C7_BuildAfterClear ==
    (BuiltLogged /\ LastClear > 0 /\ hist[LastClear].a = TRUE) =>
      /\ ret[1] = "--clearenv"
      /\ \A k \in Keys, x \in Vals :
            CountSetenv(ret, k, x) > 0 =>
              \E i \in (LastClear + 1)..Len(hist) : IsCall(hist[i], "add_env", k, x)
      /\ \A k \in Keys :
            UnsetsKey(ret, k) =>
              \E i \in (LastClear + 1)..Len(hist) : IsCall(hist[i], "add_unset_env", k, "")
      /\ \A i \in (LastClear + 1)..Len(hist) :
            /\ ( /\ hist[i].op = "add_env"
                 /\ \A m \in (i + 1)..Len(hist) :
                       ~DropsEnvKey(hist[m], hist[i].a) /\ ~WritesEnvKey(hist[m], hist[i].a) )
               => CountSetenv(ret, hist[i].a, hist[i].b) = 1
            /\ ( /\ hist[i].op = "add_unset_env"
                 /\ \A m \in (i + 1)..Len(hist) :
                       ~(hist[m].op = "remove_unset_env" /\ hist[m].a = hist[i].a) )
               => UnsetsKey(ret, hist[i].a)

C7_ClearEnv ==
    [][ /\ C7_BuildAfterClear'
        /\ (Len(hist') = Len(hist) + 1 /\ hist'[Len(hist')].op = "clear_env") =>
              IF hist'[Len(hist')].a
                THEN clear_env' /\ env' = EmptyMap /\ unset_env' = {}
                ELSE ~clear_env' /\ env' = env /\ unset_env' = unset_env ]_vars

\* the scenario of tests::env2, shortened to the call budget
C7_Witness ==
    /\ Built
    /\ Len(hist) = 4
    /\ IsCall(hist[1], "add_env", "K1", "a")
    /\ IsCall(hist[2], "clear_env", TRUE, "")
    /\ IsCall(hist[3], "add_env", "K2", "b")
    /\ IsCall(hist[4], "build_args", "", "")
    /\ ret = << "--clearenv", "--setenv", "K2", "b", "--", "echo" >>

(***************************************************************************)
(* C8: whatever the sequence of add_env, add_unset_env, remove_env,        *)
(* remove_unset_env and clear_env calls, the output of build_args never    *)
(* contains both `--setenv k <v>` and `--unsetenv k` for the same key k.   *)
(***************************************************************************)
C8_NoSetAndUnset ==
    Built => \A k \in Keys : ~(SetsKey(ret, k) /\ UnsetsKey(ret, k))

(***************************************************************************)
(* FsOptions::to_option as a function of its input: every variant, with    *)
(* and without its optional fields.                                        *)
(***************************************************************************)
Perms == { None, Some(493), Some(7) }
Sizes == { None, Some(1024) }
Fds == { 3, 10 }

\* the variants whose permission is an Option<u64>, or that have none
FsOptional ==
    { [ kind |-> "Bind", read_only |-> ro, source |-> "/h", destination |-> "/g",
        permission |-> p, try_ |-> t ] : ro \in BOOLEAN, t \in BOOLEAN, p \in Perms }
      \cup { [ kind |-> k, source |-> "/h", destination |-> "/g", permission |-> p,
               try_ |-> t ] : k \in { "DevBind", "ProcBind" }, t \in BOOLEAN, p \in Perms }
      \cup { [ kind |-> k, destination |-> "/g", permission |-> p ] :
               k \in { "Dev", "Proc", "MQueue", "Dir" }, p \in Perms }
      \cup { [ kind |-> "TempFs", destination |-> "/g", permission |-> p, size |-> z ] :
               p \in Perms, z \in Sizes }
      \cup { [ kind |-> "Symlink", source |-> "/h", destination |-> "/g" ] }
      \cup { [ kind |-> "File", source |-> fd, destination |-> "/g", permission |-> p ] :
               fd \in Fds, p \in Perms }
      \cup { [ kind |-> "Data", source |-> fd, destination |-> "/g", permission |-> p,
               read_only |-> ro ] : fd \in Fds, p \in Perms, ro \in BOOLEAN }

\* Chmod, whose permission is a plain u64
FsChmod ==
    { [ kind |-> "Chmod", destination |-> "/g", permission |-> p ] : p \in { 493, 420, 7 } }

\* one call of FsOptions::to_option on opt
ToOption ==
    /\ hist = << >>
    /\ ret' = to_option(opt)
    /\ Log(Call("to_option", opt, ""))
    /\ UNCHANGED << builder, opt, runner, service >>

InitFs ==
    /\ New("echo")
    /\ ret = << >>
    /\ hist = << >>
    /\ logging = TRUE
    /\ \/ opt \in FsOptional
       \/ opt \in FsChmod
    /\ NoRunner
    /\ NoService

NextFs == ToOption

SpecFs == InitFs /\ [][NextFs]_vars

\* to_option has returned the lowering of opt
Lowered == hist # << >> /\ hist[1].op = "to_option"

(***************************************************************************)
(* C3: a plain Bind lowers to exactly one flag chosen by (read_only, try): *)
(* (false,false) -> --bind, (true,false) -> --ro-bind, (false,true) ->     *)
(* --bind-try, (true,true) -> --ro-bind-try, preceded by `--perm <octal>`  *)
(* only when permission is set and followed by source then destination.    *)
(***************************************************************************)
C3_BindFlag(ro, try) ==
    CASE ~ro /\ ~try -> "--bind"
      [] ro /\ ~try -> "--ro-bind"
      [] ~ro /\ try -> "--bind-try"
      [] ro /\ try -> "--ro-bind-try"

C3_BindLowering ==
    (Lowered /\ opt.kind = "Bind") =>
      LET tail == << C3_BindFlag(opt.read_only, opt.try_), opt.source, opt.destination >>
      IN  /\ opt.permission = None => ret = tail
          /\ opt.permission = Some(493) => ret = << "--perm", "755" >> \o tail
          /\ opt.permission = Some(7) => ret = << "--perm", "7" >> \o tail

(***************************************************************************)
(* NsFlags::to_options as a function of the flag set: every set of the     *)
(* fourteen flags.                                                         *)
(***************************************************************************)
\* one call of NsFlags::to_options on flags (taken by value)
NsFlagsToOptions ==
    /\ hist = << >>
    /\ ret' = NsFlags_to_options(flags)
    /\ Log(Call("NsFlags::to_options", flags, ""))
    /\ UNCHANGED << builder, opt, runner, service >>

InitNs ==
    /\ bwrap = None
    /\ clear_env = FALSE
    /\ env = EmptyMap
    /\ unset_env = {}
    /\ fs_options = << >>
    /\ flags \in SUBSET NsFlags
    /\ gid = None
    /\ uid = None
    /\ hostname = None
    /\ cwd = None
    /\ program = "echo"
    /\ args = << >>
    /\ ret = << >>
    /\ hist = << >>
    /\ logging = TRUE
    /\ opt = NoOpt
    /\ NoRunner
    /\ NoService

NextNs == NsFlagsToOptions

SpecNs == InitNs /\ [][NextNs]_vars

\* NsFlags::to_options has returned the lowering of flags
FlagsLowered == hist # << >> /\ hist[1].op = "NsFlags::to_options"

UnshareTokens ==
    { "--unshare-user", "--unshare-user-try", "--unshare-ipc", "--unshare-pid",
      "--unshare-net", "--unshare-uts", "--unshare-cgroup", "--unshare-cgroup-try" }

(***************************************************************************)
(* C9: for every flag set that contains ALL, the lowered tokens contain    *)
(* --unshare-all and none of the eight --unshare-* tokens of the single    *)
(* namespaces, while SHARE_NET, DISABLE_USER_NS, ASSERT_DISABLE_USER_NS,   *)
(* DIE_WITH_PARENT and NEW_SESSION are still emitted when set; {USER,      *)
(* USER_TRY, SHARE_NET, ALL} lowers to [--unshare-all, --share-net].       *)
(***************************************************************************)
C9_AllDropsUnshare ==
    (FlagsLowered /\ "ALL" \in flags) =>
      /\ "--unshare-all" \in Range(ret)
      /\ Range(ret) \cap UnshareTokens = {}
      /\ "SHARE_NET" \in flags => "--share-net" \in Range(ret)
      /\ "DISABLE_USER_NS" \in flags => "--disable-userns" \in Range(ret)
      /\ "ASSERT_DISABLE_USER_NS" \in flags => "--assert-disable-userns" \in Range(ret)
      /\ "DIE_WITH_PARENT" \in flags => "--die-with-parent" \in Range(ret)
      /\ "NEW_SESSION" \in flags => "--new-session" \in Range(ret)
      /\ flags = { "USER", "USER_TRY", "SHARE_NET", "ALL" } =>
            ret = << "--unshare-all", "--share-net" >>

\* the flag set of test::args_all, lowered
C9_Witness ==
    /\ FlagsLowered
    /\ flags = { "USER", "USER_TRY", "SHARE_NET", "ALL" }
    /\ ret = << "--unshare-all", "--share-net" >>

(***************************************************************************)
(* C10 as stated: for every flag set with both USER and USER_TRY the       *)
(* lowered tokens contain --unshare-user and not --unshare-user-try, and   *)
(* with both CGROUPS and CGROUPS_TRY they contain --unshare-cgroup and not *)
(* --unshare-cgroup-try.                                                   *)
(***************************************************************************)
C10_TryDroppedAlways ==
    FlagsLowered =>
      /\ { "USER", "USER_TRY" } \subseteq flags =>
            "--unshare-user" \in Range(ret) /\ "--unshare-user-try" \notin Range(ret)
      /\ { "CGROUPS", "CGROUPS_TRY" } \subseteq flags =>
            "--unshare-cgroup" \in Range(ret) /\ "--unshare-cgroup-try" \notin Range(ret)

(***************************************************************************)
(* C10 amended: for every flag set with both USER and USER_TRY the lowered *)
(* tokens never contain --unshare-user-try, and contain --unshare-user     *)
(* exactly when ALL is not set (with ALL set, --unshare-all stands for     *)
(* it); likewise for CGROUPS, CGROUPS_TRY and --unshare-cgroup[-try].      *)
(***************************************************************************)
C10_TryDropped ==
    FlagsLowered =>
      /\ { "USER", "USER_TRY" } \subseteq flags =>
            /\ "--unshare-user-try" \notin Range(ret)
            /\ "--unshare-user" \in Range(ret) <=> "ALL" \notin flags
            /\ "ALL" \in flags => "--unshare-all" \in Range(ret)
      /\ { "CGROUPS", "CGROUPS_TRY" } \subseteq flags =>
            /\ "--unshare-cgroup-try" \notin Range(ret)
            /\ "--unshare-cgroup" \in Range(ret) <=> "ALL" \notin flags
            /\ "ALL" \in flags => "--unshare-all" \in Range(ret)

\* the flag set of test::args1, lowered
C10_Witness ==
    /\ FlagsLowered
    /\ flags = { "USER", "USER_TRY", "SHARE_NET" }
    /\ ret = << "--unshare-user", "--share-net" >>

(***************************************************************************)
(* RunnerManifest validation (runner.rs).                                  *)
(*                                                                         *)
(* A path is the sequence of the pieces of its string between the `/`      *)
(* separators: "../etc/passwd" is <<"..", "etc", "passwd">> and "/x" is    *)
(* <<"", "x">>.  Appending one path string to another that ends in `/` is  *)
(* the concatenation of the two sequences.                                 *)
(***************************************************************************)
\* RunnerManifest::DEFAULT_COMMANDS
DEFAULT_COMMANDS ==
    << "[", "arch", "b2sum", "base32", "base64", "basename", "basenc",
       "bash", "cat", "chcon", "chgrp", "chmod", "chown", "chroot",
       "cksum", "comm", "cp", "csplit", "cut", "date", "dd", "df", "dir",
       "dircolors", "dirname", "du", "echo", "env", "expand", "expr",
       "factor", "false", "fmt", "fold", "groups", "head", "hostid", "id",
       "install", "join", "link", "ln", "logname", "ls", "md5sum",
       "mkdir", "mkfifo", "mknod", "mktemp", "mv", "nice", "nl", "nohup",
       "nproc", "numfmt", "od", "paste", "pathchk", "pinky", "pr",
       "printenv", "printf", "ptx", "pwd", "readlink", "realpath", "rm",
       "rmdir", "runcon", "seq", "sha1sum", "sha224sum", "sha256sum",
       "sha384sum", "sha512sum", "shred", "shuf", "sleep", "sort",
       "split", "stat", "stdbuf", "stty", "sum", "sync", "tac", "tail",
       "tee", "test", "timeout", "touch", "tr", "true", "truncate",
       "tsort", "tty", "uname", "unexpand", "uniq", "unlink", "uptime",
       "users", "vdir", "wc", "who", "whoami", "yes" >>

\* Path::components on Unix: the root for a leading `/`, `.` kept only in
\* first place, empty pieces dropped; a Prefix component exists on Windows only
RECURSIVE ComponentsFrom(_, _)
ComponentsFrom(p, i) ==
    IF i > Len(p) THEN << >>
    ELSE (CASE p[i] = "" ->
                 IF i = 1 /\ Len(p) > 1 THEN << [ kind |-> "RootDir", name |-> "/" ] >>
                 ELSE << >>
            [] p[i] = "." ->
                 IF i = 1 THEN << [ kind |-> "CurDir", name |-> "." ] >> ELSE << >>
            [] p[i] = ".." -> << [ kind |-> "ParentDir", name |-> ".." ] >>
            [] OTHER -> << [ kind |-> "Normal", name |-> p[i] ] >>)
           \o ComponentsFrom(p, i + 1)

components(p) == ComponentsFrom(p, 1)

\* the closure handed to components().any(..) in verify_files_deps
HasForbiddenComponent(p) ==
    \E i \in 1..Len(components(p)) : components(p)[i].kind \in { "ParentDir", "Prefix" }

\* format!("./runners/{}/", self.name) with host_path pushed onto the string
HostRealPath(name, host_path) == << ".", "runners", name >> \o host_path

\* a PathBuf as a HashMap key and as the file system sees it: two paths are
\* equal when their components are
PathKey(p) == components(p)

\* Path::exists
Exists(p) == PathKey(p) \in host_files

\* which::which(bin)
Which(bin) ==
    IF bin \in path_missing
      THEN [ tag |-> "Err", val |-> bin ]
      ELSE [ tag |-> "Ok", val |-> "/usr/bin/" \o bin ]

BinOk(output) == [ fn |-> "verify_bin_deps", tag |-> "Ok", val |-> output ]
BinErr(kind, bin) == [ fn |-> "verify_bin_deps", tag |-> kind, val |-> bin ]
FilesOk(out) == [ fn |-> "verify_files_deps", tag |-> "Ok", val |-> out ]
FilesErr(kind, what) == [ fn |-> "verify_files_deps", tag |-> kind, val |-> what ]

\* the second loop of verify_bin_deps: the defaults are taken in the order of
\* the list, one already in output is skipped, and the first that does not
\* resolve ends the loop with its error
DefaultsLoop(output) ==
    LET failing == { i \in 1..Len(DEFAULT_COMMANDS) :
                       /\ DEFAULT_COMMANDS[i] \notin DOMAIN output
                       /\ Which(DEFAULT_COMMANDS[i]).tag = "Err" }
    IN  IF failing # {}
          THEN BinErr("WhichError",
                      DEFAULT_COMMANDS[CHOOSE i \in failing : \A m \in failing : i <= m])
          ELSE BinOk([ bin \in DOMAIN output \cup Range(DEFAULT_COMMANDS) |->
                         IF bin \in DOMAIN output THEN output[bin] ELSE Which(bin).val ])

\* the first loop of verify_bin_deps, from the i-th declared dependency on
RECURSIVE DeclaredFrom(_, _, _)
DeclaredFrom(m, output, i) ==
    IF i > Len(m.bin_deps) THEN DefaultsLoop(output)
    ELSE LET bin == m.bin_deps[i]
         IN  IF Which(bin).tag = "Err" THEN BinErr("WhichError", bin)
             ELSE IF bin \in DOMAIN output THEN BinErr("Duplicate", bin)
             ELSE DeclaredFrom(m, MapInsert(output, bin, Which(bin).val), i + 1)

\* a first loop that lets a repeated name overwrite its entry
RECURSIVE DeclaredOverwriting(_, _, _)
DeclaredOverwriting(m, output, i) ==
    IF i > Len(m.bin_deps) THEN DefaultsLoop(output)
    ELSE LET bin == m.bin_deps[i]
         IN  IF Which(bin).tag = "Err" THEN BinErr("WhichError", bin)
             ELSE DeclaredOverwriting(m, MapInsert(output, bin, Which(bin).val), i + 1)

\* a verify_bin_deps without the duplicate test
verify_bin_deps_overwriting(m) == DeclaredOverwriting(m, EmptyMap, 1)

\* RunnerManifest::verify_bin_deps
verify_bin_deps(m) == DeclaredFrom(m, EmptyMap, 1)

\* self.files_deps.values().duplicates(): the guest paths met twice, PathBuf
\* values being equal when their components are
DuplicateGuests(m) ==
    { PathKey(g) : g \in
        { x \in Range(m.files_deps) :
            Cardinality({ h \in DOMAIN m.files_deps :
                            PathKey(m.files_deps[h]) = PathKey(x) }) >= 2 } }

\* the vectors duplicates() can collect: each duplicated path once, as one of
\* its occurrences, in the order the HashMap happens to be walked
DuplicateLists(m) ==
    { d \in [ 1..Cardinality(DuplicateGuests(m)) -> Range(m.files_deps) ] :
        { PathKey(d[i]) : i \in DOMAIN d } = DuplicateGuests(m) }

\* the for loop of verify_files_deps, taking the entries in the order `order`
RECURSIVE FilesFrom(_, _, _, _)
FilesFrom(m, order, out, i) ==
    IF i > Len(order) THEN FilesOk(out)
    ELSE LET host_path == order[i]
             guest_path == m.files_deps[host_path]
             host_real_path == HostRealPath(m.name, host_path)
         IN  IF ~Exists(host_real_path) THEN FilesErr("Missing", host_path)
             ELSE IF HasForbiddenComponent(host_path)
                    THEN FilesErr("InvalidPath", host_path)
             ELSE IF HasForbiddenComponent(guest_path)
                    THEN FilesErr("InvalidPath", guest_path)
             ELSE FilesFrom(m, order,
                            MapInsert(out, PathKey(host_real_path), guest_path), i + 1)

\* a verify_files_deps that looks for duplicates only after the entries passed
VerifyFilesDepsEntriesFirst ==
    /\ manifest # NoManifest
    /\ \E order \in Orders(DOMAIN manifest.files_deps) :
         LET r == FilesFrom(manifest, order, EmptyMap, 1)
         IN  IF r.tag = "Ok" /\ DuplicateGuests(manifest) # {}
               THEN \E duplicates \in DuplicateLists(manifest) :
                       result' = FilesErr("Duplicates", duplicates)
               ELSE result' = r
    /\ UNCHANGED << builder, ret, hist, logging, opt, manifest, path_missing, host_files,
                    service >>

\* RunnerManifest::verify_files_deps; a HashMap is walked in an arbitrary order
VerifyFilesDeps ==
    /\ manifest # NoManifest
    /\ IF DuplicateGuests(manifest) # {}
         THEN \E duplicates \in DuplicateLists(manifest) :
                 result' = FilesErr("Duplicates", duplicates)
         ELSE \E order \in Orders(DOMAIN manifest.files_deps) :
                 result' = FilesFrom(manifest, order, EmptyMap, 1)
    /\ UNCHANGED << builder, ret, hist, logging, opt, manifest, path_missing, host_files,
                    service >>

\* RunnerManifest::verify_bin_deps
VerifyBinDeps ==
    /\ manifest # NoManifest
    /\ result' = verify_bin_deps(manifest)
    /\ UNCHANGED << builder, ret, hist, logging, opt, manifest, path_missing, host_files,
                    service >>

(***************************************************************************)
(* The manifests the validation is run on, and the hosts it runs on.       *)
(***************************************************************************)
BinNames == { "gcc", "bash" }
MissingNames == { "gcc", "ls" }
HostPaths == { << "data.txt" >>, << "..", "etc", "passwd" >>, << "", "data.txt" >> }
GuestPaths == { << "", "x" >>, << "in" >>, << "in", "" >>, << "..", "up" >> }

Manifests ==
    { [ name |-> "demo", bin_deps |-> b, files_deps |-> f, no_default_binary |-> n ] :
        b \in SeqsUpTo(BinNames, MaxDeps),
        f \in UNION { [ S -> GuestPaths ] :
                        S \in { T \in SUBSET HostPaths : Cardinality(T) <= MaxDeps } },
        n \in BOOLEAN }

InitManifest ==
    /\ New("echo")
    /\ ret = << >>
    /\ hist = << >>
    /\ logging = FALSE
    /\ opt = NoOpt
    /\ manifest \in Manifests
    /\ path_missing \in SUBSET MissingNames
    /\ host_files \in SUBSET { PathKey(HostRealPath("demo", h)) : h \in HostPaths }
    /\ result = NoResult
    /\ NoService

NextManifest ==
    \/ VerifyBinDeps
    \/ VerifyFilesDeps

SpecManifest == InitManifest /\ [][NextManifest]_vars

(***************************************************************************)
(* C4: when a files_deps key or value has a `..` (or prefix) component,    *)
(* verify_files_deps fails with InvalidPath naming such a path, whether or *)
(* not the host file ./runners/<name>/<host_rel> of that entry exists.     *)
(* (Read for the manifests in which nothing else is wrong: the guest paths *)
(* are distinct and the host file of every entry free of such components   *)
(* exists.)                                                                *)
(***************************************************************************)
ForbiddenPaths(m) ==
    { p \in DOMAIN m.files_deps \cup Range(m.files_deps) : HasForbiddenComponent(p) }

C4_TraversalRejected ==
    ( /\ result.fn = "verify_files_deps"
      /\ DuplicateGuests(manifest) = {}
      /\ ForbiddenPaths(manifest) # {}
      /\ \A h \in DOMAIN manifest.files_deps :
            ( ~HasForbiddenComponent(h) /\ ~HasForbiddenComponent(manifest.files_deps[h]) )
            => Exists(HostRealPath(manifest.name, h)) )
    => /\ result.tag = "InvalidPath"
       /\ result.val \in ForbiddenPaths(manifest)

(***************************************************************************)
(* C5: verify_bin_deps adds the default commands only when                 *)
(* no_default_binary is false; when it is true the result holds exactly    *)
(* the declared bin_deps and no default command is looked up, so a default *)
(* that does not resolve cannot fail the validation.                       *)
(***************************************************************************)
C5_NoDefaultBinary ==
    (result.fn = "verify_bin_deps" /\ manifest.no_default_binary) =>
      /\ result.tag = "Ok" => DOMAIN result.val = Range(manifest.bin_deps)
      /\ result.tag = "WhichError" => result.val \in Range(manifest.bin_deps)

(***************************************************************************)
(* NsOptions on its own (namespace.rs): its setters, its public flags      *)
(* field written by the caller, and to_options.  ret is the vector         *)
(* to_options returned; a setter returns nothing.                          *)
(***************************************************************************)
Ids == { 0, 1000 }
Hostnames == { "box" }
NsFlagInputs ==
    (SUBSET { "USER", "USER_TRY", "UTS", "NET", "ALL" })
      \cup { { "SHARE_NET", "DIE_WITH_PARENT", "NEW_SESSION", "ALL" },
             { "IPC", "PID", "CGROUPS", "CGROUPS_TRY", "DISABLE_USER_NS",
               "ASSERT_DISABLE_USER_NS" },
             NsFlags }

\* NsOptions::set_uid
set_uid(u) ==
    /\ uid' = Some(u)
    /\ ret' = << >>
    /\ Log(Call("set_uid", u, ""))
    /\ UNCHANGED << bwrap, clear_env, env, unset_env, fs_options, flags, gid,
                    hostname, cwd, program, args, opt, runner, service >>

\* NsOptions::unset_uid
unset_uid ==
    /\ uid' = None
    /\ ret' = << >>
    /\ Log(Call("unset_uid", "", ""))
    /\ UNCHANGED << bwrap, clear_env, env, unset_env, fs_options, flags, gid,
                    hostname, cwd, program, args, opt, runner, service >>

\* NsOptions::set_gid
set_gid(g) ==
    /\ gid' = Some(g)
    /\ ret' = << >>
    /\ Log(Call("set_gid", g, ""))
    /\ UNCHANGED << bwrap, clear_env, env, unset_env, fs_options, flags, uid,
                    hostname, cwd, program, args, opt, runner, service >>

\* NsOptions::unset_gid
unset_gid ==
    /\ gid' = None
    /\ ret' = << >>
    /\ Log(Call("unset_gid", "", ""))
    /\ UNCHANGED << bwrap, clear_env, env, unset_env, fs_options, flags, uid,
                    hostname, cwd, program, args, opt, runner, service >>

\* NsOptions::set_hostname
set_hostname(h) ==
    /\ hostname' = Some(h)
    /\ ret' = << >>
    /\ Log(Call("set_hostname", h, ""))
    /\ UNCHANGED << bwrap, clear_env, env, unset_env, fs_options, flags, gid, uid,
                    cwd, program, args, opt, runner, service >>

\* NsOptions::unset_hostname
unset_hostname ==
    /\ hostname' = None
    /\ ret' = << >>
    /\ Log(Call("unset_hostname", "", ""))
    /\ UNCHANGED << bwrap, clear_env, env, unset_env, fs_options, flags, gid, uid,
                    cwd, program, args, opt, runner, service >>

\* the caller assigns the public field NsOptions::flags
AssignFlags(f) ==
    /\ flags' = f
    /\ ret' = << >>
    /\ Log(Call("flags", f, ""))
    /\ UNCHANGED << bwrap, clear_env, env, unset_env, fs_options, gid, uid,
                    hostname, cwd, program, args, opt, runner, service >>

\* NsOptions::to_options: sanitize_flags rewrites self.flags, then the tokens
NsOptionsToOptions ==
    /\ ret' = NsOptions_to_options(flags, gid, uid, hostname, cwd)
    /\ flags' = sanitize_flags(flags, gid, uid, hostname)
    /\ Log(Call("NsOptions::to_options", "", ""))
    /\ UNCHANGED << bwrap, clear_env, env, unset_env, fs_options, gid, uid,
                    hostname, cwd, program, args, opt, runner, service >>

\* NsOptions::new (Default)
InitNsOptions ==
    /\ New("echo")
    /\ ret = << >>
    /\ hist = << >>
    /\ logging = FALSE
    /\ opt = NoOpt
    /\ NoRunner
    /\ NoService

NextNsOptions ==
    \/ \E u \in Ids : set_uid(u)
    \/ unset_uid
    \/ \E g \in Ids : set_gid(g)
    \/ unset_gid
    \/ \E h \in Hostnames : set_hostname(h)
    \/ unset_hostname
    \/ \E f \in NsFlagInputs : AssignFlags(f)
    \/ SetCwd("/a")
    \/ UnsetCwd
    \/ NsOptionsToOptions

SpecNsOptions == InitNsOptions /\ [][NextNsOptions]_vars

\* v holds the pair `t x`
HasPair(v, t, x) == \E i \in 1..(Len(v) - 1) : v[i] = t /\ v[i + 1] = x

(***************************************************************************)
(* C11, as stated: whenever to_options has lowered an NsOptions with uid   *)
(* or gid set, the tokens hold --unshare-user next to --uid / --gid, and   *)
(* whenever hostname is set they hold --unshare-uts next to --hostname.    *)
(***************************************************************************)
C11_ImpliedUnshareAlways ==
    ret # << >> =>
      /\ IsSome(uid) => "--unshare-user" \in Range(ret)
                          /\ HasPair(ret, "--uid", to_string(Unwrap(uid)))
      /\ IsSome(gid) => "--unshare-user" \in Range(ret)
                          /\ HasPair(ret, "--gid", to_string(Unwrap(gid)))
      /\ IsSome(hostname) => "--unshare-uts" \in Range(ret)
                               /\ HasPair(ret, "--hostname", Unwrap(hostname))

(***************************************************************************)
(* C11: whenever to_options has lowered an NsOptions with uid or gid set,  *)
(* the tokens hold --uid / --gid with the decimal id, and with hostname    *)
(* set they hold --hostname.  The implied namespace is requested by        *)
(* --unshare-user (--unshare-uts), the flag USER (UTS) being set, when ALL *)
(* is not among the flags, and by --unshare-all alone when it is.          *)
(***************************************************************************)
C11_ImpliedUnshare ==
    ret # << >> =>
      /\ IsSome(uid) => HasPair(ret, "--uid", to_string(Unwrap(uid)))
      /\ IsSome(gid) => HasPair(ret, "--gid", to_string(Unwrap(gid)))
      /\ IsSome(hostname) => HasPair(ret, "--hostname", Unwrap(hostname))
      /\ (IsSome(uid) \/ IsSome(gid)) =>
            /\ "ALL" \notin flags => /\ "USER" \in flags
                                     /\ "--unshare-user" \in Range(ret)
            /\ "ALL" \in flags => /\ "--unshare-all" \in Range(ret)
                                  /\ "--unshare-user" \notin Range(ret)
      /\ IsSome(hostname) =>
            /\ "ALL" \notin flags => /\ "UTS" \in flags
                                     /\ "--unshare-uts" \in Range(ret)
            /\ "ALL" \in flags => /\ "--unshare-all" \in Range(ret)
                                  /\ "--unshare-uts" \notin Range(ret)

\* uid 1000 and hostname box, lowered from flags without ALL
C11_Witness ==
    /\ uid = Some(1000)
    /\ gid = None
    /\ hostname = Some("box")
    /\ ret = << "--unshare-user", "--unshare-uts", "--uid", "1000", "--hostname", "box" >>

(***************************************************************************)
(* The working-directory scenarios: a caller that makes at most MaxCalls   *)
(* calls among set_cwd, unset_cwd and build_args, every call logged.       *)
(***************************************************************************)
InitCwd ==
    /\ New("echo")
    /\ ret = << >>
    /\ hist = << >>
    /\ logging = TRUE
    /\ opt = NoOpt
    /\ NoRunner
    /\ NoService

NextCwd ==
    \/ \E p \in Paths : SetCwd(p)
    \/ UnsetCwd
    \/ BuildArgs

SpecCwd == InitCwd /\ [][NextCwd]_vars

\* the position of the last set_cwd / unset_cwd call of the log, 0 when none
LastCwdCall ==
    LET cs == { i \in 1..Len(hist) : hist[i].op \in { "set_cwd", "unset_cwd" } }
    IN  IF cs = {} THEN 0 ELSE CHOOSE i \in cs : \A m \in cs : m <= i

(***************************************************************************)
(* C12: when build_args follows set_cwd calls of which set_cwd(b) is the   *)
(* last, its result is [--chdir, b, --, program]: it holds `--chdir b` and *)
(* no other --chdir token or earlier directory; when an unset_cwd came     *)
(* after them (or no set_cwd was made) the result holds no --chdir token   *)
(* and is [--, program].                                                   *)
(***************************************************************************)
C12_LastCwdWins ==
    BuiltLogged =>
      IF LastCwdCall > 0 /\ hist[LastCwdCall].op = "set_cwd"
      THEN /\ ret = << "--chdir", hist[LastCwdCall].a, "--", program >>
           /\ \A a \in Paths \ { hist[LastCwdCall].a } : a \notin Range(ret)
      ELSE /\ "--chdir" \notin Range(ret)
           /\ ret = << "--", program >>

\* set_cwd(/a), set_cwd(/b), build_args: the second directory alone is lowered
C12_Witness ==
    /\ Len(hist) = 3
    /\ IsCall(hist[1], "set_cwd", "/a", "")
    /\ IsCall(hist[2], "set_cwd", "/b", "")
    /\ hist[3].op = "build_args"
    /\ ret = << "--chdir", "/b", "--", "echo" >>

(***************************************************************************)
(* C13: a Data entry lowers to `--perm <octal>` only when permission is    *)
(* set, then --ro-data when read_only is true and --data when it is false, *)
(* then the file descriptor in decimal, then the destination.              *)
(***************************************************************************)
C13_DataLowering ==
    (Lowered /\ opt.kind = "Data") =>
      LET tail == << IF opt.read_only THEN "--ro-data" ELSE "--data",
                     to_string(opt.source), opt.destination >>
      IN  /\ opt.permission = None => ret = tail
          /\ opt.permission = Some(493) => ret = << "--perm", "755" >> \o tail
          /\ opt.permission = Some(7) => ret = << "--perm", "7" >> \o tail

(***************************************************************************)
(* The mount-order scenarios: a caller that makes at most MaxCalls calls,  *)
(* add_fs_options interleaved with env, clear_env, namespace, cwd and arg  *)
(* calls and build_args, every call logged.                                *)
(***************************************************************************)
InitFsOrder ==
    /\ New("echo")
    /\ ret = << >>
    /\ hist = << >>
    /\ logging = TRUE
    /\ opt = NoOpt
    /\ NoRunner
    /\ NoService

NextFsOrder ==
    \/ \E o \in FsInputs : AddFsOptions(o)
    \/ AddEnv("K1", "a")
    \/ AddUnsetEnv("K2")
    \/ ClearEnv(TRUE)
    \/ AddNamespaceFlags({ "ALL" })
    \/ SetCwd("/a")
    \/ UnsetCwd
    \/ Arg("x")
    \/ BuildArgs

SpecFsOrder == InitFsOrder /\ [][NextFsOrder]_vars

\* the entries the logged add_fs_options calls passed, in call order
RECURSIVE AddedFrom(_)
AddedFrom(i) ==
    IF i > Len(hist) THEN << >>
    ELSE (IF hist[i].op = "add_fs_options" THEN << hist[i].a >> ELSE << >>)
           \o AddedFrom(i + 1)

\* the first tokens of the lowerings of the mount inputs
FsFlagTokens == { to_option(o)[1] : o \in FsInputs }

(***************************************************************************)
(* C14: whatever env, clear_env, namespace, cwd and arg calls are made     *)
(* between the add_fs_options calls, the builder holds the entries in the  *)
(* order they were added, and build_args returns their lowerings in that   *)
(* order as one contiguous run of tokens, with no mount token outside it.  *)
(***************************************************************************)
C14_FsOrderKept ==
    /\ fs_options = AddedFrom(1)
    /\ BuiltLogged =>
         LET seg == Flatten([ i \in 1..Len(AddedFrom(1)) |-> to_option(AddedFrom(1)[i]) ])
         IN  \E s \in 0..(Len(ret) - Len(seg)) :
               /\ SubSeq(ret, s + 1, s + Len(seg)) = seg
               /\ \A j \in 1..Len(ret) :
                     ret[j] \in FsFlagTokens => (s < j /\ j <= s + Len(seg))

\* TempFs added, then an env call, then Bind added, then build_args
C14_Witness ==
    /\ Len(hist) = 4
    /\ hist[1].op = "add_fs_options" /\ hist[1].a.kind = "TempFs"
    /\ hist[2].op = "add_env"
    /\ hist[3].op = "add_fs_options" /\ hist[3].a.kind = "Bind"
    /\ hist[4].op = "build_args"
    /\ ret = << "--setenv", "K1", "a", "--size", "1024", "--tmpfs", "/tmp",
                "--perm", "755", "--ro-bind-try", "/h", "/g", "--", "echo" >>

(***************************************************************************)
(* C15: when two files_deps entries map to the same guest path,            *)
(* verify_files_deps fails with Duplicates, the error listing each         *)
(* duplicated guest path once and nothing else, and it does so before any  *)
(* entry is tested: also when a host file is missing or a path has a `..`  *)
(* component, which alone would give Missing or InvalidPath.               *)
(***************************************************************************)
SharedGuests(m) ==
    { PathKey(m.files_deps[h1]) : h1 \in
        { h \in DOMAIN m.files_deps :
            \E h2 \in DOMAIN m.files_deps \ { h } :
               PathKey(m.files_deps[h2]) = PathKey(m.files_deps[h]) } }

C15_DuplicatesFirst ==
    (result.fn = "verify_files_deps" /\ SharedGuests(manifest) # {}) =>
      /\ result.tag = "Duplicates"
      /\ Len(result.val) = Cardinality(SharedGuests(manifest))
      /\ { PathKey(result.val[i]) : i \in 1..Len(result.val) } = SharedGuests(manifest)

\* both entries map to ../up and neither host file exists
C15_Witness ==
    /\ result.fn = "verify_files_deps"
    /\ result.tag = "Duplicates"
    /\ result.val = << << "..", "up" >> >>
    /\ DOMAIN manifest.files_deps = { << "data.txt" >>, << "..", "etc", "passwd" >> }
    /\ host_files = {}

\* the declared names that appear twice in bin_deps
RepeatedBins(m) ==
    { m.bin_deps[i] : i \in { j \in 1..Len(m.bin_deps) :
                                \E k \in 1..(j - 1) : m.bin_deps[k] = m.bin_deps[j] } }
\* the declared and default commands that PATH lookup does not find
UnresolvedBins(m) == (Range(m.bin_deps) \cup Range(DEFAULT_COMMANDS)) \cap path_missing

C17_MissingOrMap ==
    ( /\ result.fn = "verify_files_deps"
      /\ SharedGuests(manifest) = {}
      /\ ForbiddenPaths(manifest) = {} )
    => LET f == manifest.files_deps
           absent == { h \in DOMAIN f : ~Exists(HostRealPath(manifest.name, h)) }
       IN  IF absent # {}
             THEN result.tag = "Missing" /\ result.val \in absent
             ELSE /\ result.tag = "Ok"
                  /\ Cardinality(DOMAIN result.val) = Cardinality(DOMAIN f)
                  /\ \A h \in DOMAIN f :
                        /\ PathKey(HostRealPath(manifest.name, h)) \in DOMAIN result.val
                        /\ result.val[PathKey(HostRealPath(manifest.name, h))] = f[h]

(***************************************************************************)
(* Reading a manifest.yml: the Deserialize implementation derived for      *)
(* RunnerManifest (runner.rs).  doc holds what the file gives for each     *)
(* field of the struct (None when the key is absent) and whether it has a  *)
(* key the struct does not know.                                           *)
(***************************************************************************)
\* RunnerManifest::default_timeout_value, in seconds
default_timeout_value == 10

\* Option::unwrap_or
unwrap_or(o, d) == IF IsSome(o) THEN Unwrap(o) ELSE d

\* the fields without #[serde(default)], in declaration order
RequiredFields == << "show_trace", "name", "entry" >>

\* the derived Deserialize: a missing required field is an error, a missing
\* defaulted field takes its default, a key of another name is skipped, and
\* exit_status is any mapping from i32 to String
Deserialize ==
    /\ doc # NoDoc
    /\ result = NoResult
    /\ LET missing == { i \in 1..Len(RequiredFields) : doc[RequiredFields[i]] = None }
       IN  IF missing # {}
             THEN /\ result' = [ fn |-> "deserialize", tag |-> "MissingField",
                                 val |-> RequiredFields[CHOOSE i \in missing :
                                                          \A j \in missing : i <= j] ]
                  /\ UNCHANGED manifest
             ELSE /\ result' = [ fn |-> "deserialize", tag |-> "Ok", val |-> "" ]
                  /\ manifest' =
                       [ show_trace |-> Unwrap(doc.show_trace),
                         name |-> Unwrap(doc.name),
                         bin_deps |-> unwrap_or(doc.bin_deps, << >>),
                         files_deps |-> unwrap_or(doc.files_deps, EmptyMap),
                         entry |-> Unwrap(doc.entry),
                         timeout |-> unwrap_or(doc.timeout, default_timeout_value),
                         no_default_binary |-> unwrap_or(doc.no_default_binary, FALSE),
                         exit_status |-> unwrap_or(doc.exit_status, EmptyMap) ]
    /\ UNCHANGED << builder, ret, hist, logging, opt, path_missing, host_files,
                    doc, run, child, timer >>

\* the exit_status mappings of the manifests read
ExitStatusInputs ==
    { EmptyMap,
      [ c \in { 1 } |-> "missing files" ],
      [ c \in { 0 } |-> "ok" ],
      [ c \in { 0, 2 } |-> IF c = 0 THEN "fine" ELSE "formatting" ] }

Docs ==
    { [ kind |-> "manifest.yml", show_trace |-> st, name |-> n, bin_deps |-> b,
        files_deps |-> None, entry |-> Some("run.sh"), timeout |-> t,
        no_default_binary |-> nd, exit_status |-> es, unknown |-> u ] :
        st \in { None, Some(TRUE) }, n \in { None, Some("demo") },
        b \in { None, Some(<< "gcc" >>) }, t \in { None, Some(30) },
        nd \in { None, Some(TRUE) },
        es \in { None } \cup { Some(e) : e \in ExitStatusInputs },
        u \in BOOLEAN }

InitDeserialize ==
    /\ New("echo")
    /\ ret = << >>
    /\ hist = << >>
    /\ logging = FALSE
    /\ opt = NoOpt
    /\ manifest = NoManifest
    /\ path_missing = {}
    /\ host_files = {}
    /\ result = NoResult
    /\ doc \in Docs
    /\ run = [ show_trace |-> FALSE, state |-> NotLaunched ]
    /\ child = "none"
    /\ timer = "unarmed"

NextDeserialize == Deserialize

SpecDeserialize == InitDeserialize /\ [][NextDeserialize]_vars

(***************************************************************************)
(* C18: a manifest.yml whose exit_status mapping has the key 0 is rejected *)
(* when it is read, so that no accepted RunnerManifest carries a status    *)
(* label for exit code 0.                                                  *)
(***************************************************************************)
C18_ZeroRejected ==
    result.fn = "deserialize" =>
      /\ (IsSome(doc.exit_status) /\ 0 \in DOMAIN Unwrap(doc.exit_status))
            => result.tag # "Ok"
      /\ result.tag = "Ok" => 0 \notin DOMAIN manifest.exit_status

(***************************************************************************)
(* The run lifecycle.  runner.rs declares Run, RunState and RunOutput; the *)
(* controller that drives a Run is described by the specification          *)
(* (RunController): launch, the child's exit, the timer's expiry and the   *)
(* external cancel, handled strictly one after the other.                  *)
(*   child: "none" before the launch, "alive" once spawned, "exited" when  *)
(*     it ended by itself, "killed" once the controller sent SIGKILL to    *)
(*     its process group, "reaped" once the exit of the killed child was   *)
(*     notified.                                                           *)
(*   timer: "unarmed", "armed" by the launch, "fired" once it expired.     *)
(***************************************************************************)
Instants == { 1, 2 }
ExitCodes == { 0, 1, 3 }
\* the exit_status mapping of the run's runner, and what the trace file holds
RunnerExitStatus == [ c \in { 1 } |-> "missing files" ]
TraceContents == "log"

\* RunState::Running(Instant)
Running(t) == [ tag |-> "Running", started |-> Some(t), output |-> None ]
\* RunState::Complete(RunOutput)
Complete(o) == [ tag |-> "Complete", started |-> None, output |-> Some(o) ]
\* a RunOutput that reads the trace whatever show_trace says
RunOutputAlwaysTraced(c) ==
    [ trace |-> TraceContents,
      status |-> IF c = 0 THEN "successful"
                 ELSE IF c \in DOMAIN RunnerExitStatus THEN RunnerExitStatus[c]
                 ELSE "unknown",
      successful |-> (c = 0) ]

\* the RunOutput synthesized from exit code c
RunOutput(c) ==
    [ trace |-> IF run.show_trace THEN TraceContents ELSE "",
      status |-> IF c = 0 THEN "successful"
                 ELSE IF c \in DOMAIN RunnerExitStatus THEN RunnerExitStatus[c]
                 ELSE "unknown",
      successful |-> (c = 0) ]

\* a TimedOut that carries the output of a killed run
TimedOutWithOutput ==
    [ tag |-> "TimedOut", started |-> None, output |-> Some(RunOutput(3)) ]

\* RunState::TimedOut
TimedOut == [ tag |-> "TimedOut", started |-> None, output |-> None ]

\* launch(): spawns the child, arms the timer; launching a Run that is not
\* NotLaunched is a RunStateViolation and leaves the Run as it is
Launch(t) ==
    /\ IF run.state.tag = "NotLaunched"
         THEN /\ run' = [ run EXCEPT !.state = Running(t) ]
              /\ child' = "alive"
              /\ timer' = "armed"
              /\ result' = [ fn |-> "launch", tag |-> "Ok", val |-> "" ]
         ELSE /\ result' = [ fn |-> "launch", tag |-> "RunStateViolation", val |-> "" ]
              /\ UNCHANGED << run, child, timer >>
    /\ Log(Call("launch", t, ""))
    /\ UNCHANGED << builder, ret, opt, manifest, path_missing, host_files, doc >>

\* a child exit that completes the Run whatever its state
ChildExitAlwaysCompletes(c) ==
    /\ child \in { "alive", "killed" }
    /\ run' = [ run EXCEPT !.state = Complete(RunOutput(c)) ]
    /\ child' = IF child = "alive" THEN "exited" ELSE "reaped"
    /\ Log(Call("child_exit", c, ""))
    /\ UNCHANGED << builder, ret, opt, runner, doc, timer >>

\* the child's exit is notified with code c: a Running run completes; the
\* exit of a child the controller killed comes late and changes nothing
ChildExit(c) ==
    /\ child \in { "alive", "killed" }
    /\ IF run.state.tag = "Running" /\ child = "alive"
         THEN /\ run' = [ run EXCEPT !.state = Complete(RunOutput(c)) ]
              /\ child' = "exited"
         ELSE /\ child' = "reaped"
              /\ UNCHANGED run
    /\ Log(Call("child_exit", c, ""))
    /\ UNCHANGED << builder, ret, opt, runner, doc, timer >>

\* the timer expires: a Running run has its process group killed and
\* becomes TimedOut, the trace is not read; otherwise the expiry is late
TimerExpiry ==
    /\ timer = "armed"
    /\ timer' = "fired"
    /\ IF run.state.tag = "Running"
         THEN /\ child' = "killed"
              /\ run' = [ run EXCEPT !.state = TimedOut ]
         ELSE UNCHANGED << run, child >>
    /\ Log(Call("timer_expiry", "", ""))
    /\ UNCHANGED << builder, ret, opt, runner, doc >>

\* an external cancel: the timeout transition of a Running run, nothing else
Cancel ==
    /\ IF run.state.tag = "Running"
         THEN /\ child' = "killed"
              /\ run' = [ run EXCEPT !.state = TimedOut ]
         ELSE UNCHANGED << run, child >>
    /\ Log(Call("cancel", "", ""))
    /\ UNCHANGED << builder, ret, opt, runner, doc, timer >>

InitRun ==
    /\ New("echo")
    /\ ret = << >>
    /\ hist = << >>
    /\ logging = TRUE
    /\ opt = NoOpt
    /\ NoRunner
    /\ doc = NoDoc
    /\ run \in [ show_trace : BOOLEAN, state : { NotLaunched } ]
    /\ child = "none"
    /\ timer = "unarmed"

NextRun ==
    \/ \E t \in Instants : Launch(t)
    \/ \E c \in ExitCodes : ChildExit(c)
    \/ TimerExpiry
    \/ Cancel

SpecRun == InitRun /\ [][NextRun]_vars

\* how far along its lifecycle a RunState is
Rank(s) ==
    CASE s.tag = "NotLaunched" -> 0
      [] s.tag = "Running" -> 1
      [] s.tag \in { "Complete", "TimedOut" } -> 2

(***************************************************************************)
(* C19: every step leaves the state of the Run as it is or moves it along  *)
(* NotLaunched -> Running -> (Complete | TimedOut); it never moves back,   *)
(* and once the Run is Complete or TimedOut no event (a late child exit, a *)
(* late timer expiry, a cancel, another launch) changes it.                *)
(***************************************************************************)
C19_Forward ==
    [][ \/ run'.state = run.state
        \/ run.state.tag = "NotLaunched" /\ run'.state.tag = "Running"
        \/ run.state.tag = "Running" /\ run'.state.tag \in { "Complete", "TimedOut" } ]_vars

\* a run cancelled while Running, then the late exit of the killed child and
\* another launch: still TimedOut
C19_Witness ==
    /\ Len(hist) = 4
    /\ hist[1].op = "launch"
    /\ hist[2].op = "cancel"
    /\ hist[3].op = "child_exit"
    /\ hist[4].op = "launch"
    /\ run.state = TimedOut
    /\ result.tag = "RunStateViolation"

\* the position of the first logged launch, 0 when there is none
FirstLaunch ==
    LET ls == { i \in 1..Len(hist) : hist[i].op = "launch" }
    IN  IF ls = {} THEN 0 ELSE CHOOSE i \in ls : \A m \in ls : i <= m

\* the position of the first child exit, timer expiry or cancel after the
\* launch, 0 when there is none
FirstEnd ==
    LET es == { i \in (FirstLaunch + 1)..Len(hist) :
                  hist[i].op \in { "child_exit", "timer_expiry", "cancel" } }
    IN  IF FirstLaunch = 0 \/ es = {} THEN 0 ELSE CHOOSE i \in es : \A m \in es : i <= m

C21_CompleteOutput ==
    (FirstEnd > 0 /\ hist[FirstEnd].op = "child_exit") =>
      LET c == hist[FirstEnd].a
          o == Unwrap(run.state.output)
      IN  /\ run.state.tag = "Complete"
          /\ IsSome(run.state.output)
          /\ o.successful = (c = 0)
          /\ c = 0 => o.status = "successful"
          /\ c = 1 => o.status = "missing files"
          /\ c = 3 => o.status = "unknown"
          /\ run.show_trace => o.trace = "log"
          /\ ~run.show_trace => o.trace = ""

\* exit code 1, which the runner labels, on a run that does not show its trace
C21_Witness ==
    /\ Len(hist) = 2
    /\ hist[1].op = "launch"
    /\ IsCall(hist[2], "child_exit", 1, "")
    /\ ~run.show_trace
    /\ run.state = Complete([ trace |-> "", status |-> "missing files",
                              successful |-> FALSE ])

\* the flags and their launcher arguments, in the order of the lowering
C22_FlagTokens ==
    << << "USER", "--unshare-user" >>, << "USER_TRY", "--unshare-user-try" >>,
       << "IPC", "--unshare-ipc" >>, << "PID", "--unshare-pid" >>,
       << "NET", "--unshare-net" >>, << "UTS", "--unshare-uts" >>,
       << "CGROUPS", "--unshare-cgroup" >>,
       << "CGROUPS_TRY", "--unshare-cgroup-try" >>,
       << "ALL", "--unshare-all" >>,
       << "DISABLE_USER_NS", "--disable-userns" >>,
       << "ASSERT_DISABLE_USER_NS", "--assert-disable-userns" >>,
       << "SHARE_NET", "--share-net" >>,
       << "DIE_WITH_PARENT", "--die-with-parent" >>,
       << "NEW_SESSION", "--new-session" >> >>

\* ret is what to_options returns for the options as they are: it has run
\* since the last setter (and left the flags sanitized), or nothing is set
NsLowered ==
    \/ ret # << >>
    \/ flags = {} /\ gid = None /\ uid = None /\ hostname = None /\ cwd = None

C23_Operands(o) ==
    CASE o.kind \in { "Bind", "DevBind", "ProcBind" } -> << o.source, o.destination >>
      [] o.kind \in { "File", "Data" } ->
            << IF o.source = 3 THEN "3" ELSE "10", o.destination >>
      [] o.kind \in { "Dev", "Proc", "MQueue", "Dir", "TempFs" } -> << o.destination >>

\* permission p as the lowering prints it
C23_Octal(p) ==
    CASE p = 493 -> "755"
      [] p = 420 -> "644"
      [] p = 7 -> "7"

(***************************************************************************)
(* C23: an entry with an optional permission lowers to `--perm <p>` (p in  *)
(* octal, no leading 0) exactly when the permission is set, right before   *)
(* the one flag token of the variant, which its operands follow; for       *)
(* TempFs the tokens are the optional --perm pair, the optional            *)
(* `--size <bytes in decimal>` pair, --tmpfs, the destination; Chmod       *)
(* lowers to `--chmod <octal> dst`.                                        *)
(***************************************************************************)
C23_PermLowering ==
    Lowered =>
      IF opt.kind = "Chmod"
        THEN ret = << "--chmod", C23_Octal(opt.permission), opt.destination >>
      ELSE IF opt.kind = "Symlink" THEN "--perm" \notin Range(ret)
      ELSE LET perm == IF opt.permission = None THEN << >>
                       ELSE << "--perm", C23_Octal(Unwrap(opt.permission)) >>
               size == IF opt.kind = "TempFs" /\ opt.size # None
                         THEN << "--size", "1024" >> ELSE << >>
               n == Len(perm) + Len(size)
           IN  /\ Len(ret) = n + 1 + Len(C23_Operands(opt))
               /\ SubSeq(ret, 1, n) = perm \o size
               /\ ret[n + 1] \notin { "--perm", "--size" }
               /\ opt.kind = "TempFs" => ret[n + 1] = "--tmpfs"
               /\ SubSeq(ret, n + 2, Len(ret)) = C23_Operands(opt)
               /\ opt.permission = None => "--perm" \notin Range(ret)

\* a TempFs with permission 0o755 and a size of 1024 bytes
C23_Witness ==
    /\ Lowered
    /\ opt.kind = "TempFs"
    /\ ret = << "--perm", "755", "--size", "1024", "--tmpfs", "/g" >>

(***************************************************************************)
(* The convenience helpers of BwrapCommand (lib.rs): each builds one       *)
(* FsOptions value and hands it to add_fs_options.                         *)
(***************************************************************************)
\* self.add_fs_options(o), called by the helper `name` with arguments a and b
Helper(name, a, b, o) ==
    /\ Len(fs_options) < MaxFs
    /\ fs_options' = Append(fs_options, o)
    /\ ret' = << >>
    /\ Log(Call(name, a, b))
    /\ UNCHANGED << bwrap, clear_env, env, unset_env, flags, gid, uid, hostname,
                    cwd, program, args, opt, runner, service >>

bind(host, guest) ==
    Helper("bind", host, guest,
           [ kind |-> "Bind", read_only |-> FALSE, source |-> host,
             destination |-> guest, permission |-> None, try_ |-> FALSE ])

try_bind(host, guest) ==
    Helper("try_bind", host, guest,
           [ kind |-> "Bind", read_only |-> FALSE, source |-> host,
             destination |-> guest, permission |-> None, try_ |-> TRUE ])

bind_read_only(host, guest) ==
    Helper("bind_read_only", host, guest,
           [ kind |-> "Bind", read_only |-> TRUE, source |-> host,
             destination |-> guest, permission |-> None, try_ |-> FALSE ])

try_bind_ready_only(host, guest) ==
    Helper("try_bind_ready_only", host, guest,
           [ kind |-> "Bind", read_only |-> TRUE, source |-> host,
             destination |-> guest, permission |-> None, try_ |-> TRUE ])

proc_dir(path) ==
    Helper("proc_dir", path, "",
           [ kind |-> "Proc", destination |-> path, permission |-> None ])

dev_dir(path) ==
    Helper("dev_dir", path, "",
           [ kind |-> "Dev", destination |-> path, permission |-> None ])

dev_bind(host, guest) ==
    Helper("dev_bind", host, guest,
           [ kind |-> "DevBind", source |-> host, destination |-> guest,
             permission |-> None, try_ |-> FALSE ])

try_dev_bind(host, guest) ==
    Helper("try_dev_bind", host, guest,
           [ kind |-> "DevBind", source |-> host, destination |-> guest,
             permission |-> None, try_ |-> TRUE ])

tmpfs(path) ==
    Helper("tmpfs", path, "",
           [ kind |-> "TempFs", destination |-> path, permission |-> None,
             size |-> None ])

dir(path) ==
    Helper("dir", path, "",
           [ kind |-> "Dir", destination |-> path, permission |-> None ])

symlink(source, destination) ==
    Helper("symlink", source, destination,
           [ kind |-> "Symlink", destination |-> destination, source |-> source ])

file(fd, destination) ==
    Helper("file", to_string(fd), destination,
           [ kind |-> "File", destination |-> destination, source |-> fd,
             permission |-> None ])

data(fd, destination) ==
    Helper("data", to_string(fd), destination,
           [ kind |-> "File", destination |-> destination, source |-> fd,
             permission |-> None ])

InitHelpers ==
    /\ New("echo")
    /\ ret = << >>
    /\ hist = << >>
    /\ logging = TRUE
    /\ opt = NoOpt
    /\ NoRunner
    /\ NoService

NextHelpers ==
    \/ bind("/h", "/g")
    \/ try_bind("/h", "/g")
    \/ bind_read_only("/h", "/g")
    \/ try_bind_ready_only("/h", "/g")
    \/ proc_dir("/g")
    \/ dev_dir("/g")
    \/ dev_bind("/h", "/g")
    \/ try_dev_bind("/h", "/g")
    \/ tmpfs("/g")
    \/ dir("/g")
    \/ symlink("/h", "/g")
    \/ \E fd \in Fds : file(fd, "/g")
    \/ \E fd \in Fds : data(fd, "/g")

SpecHelpers == InitHelpers /\ [][NextHelpers]_vars

\* the variant a helper is named after
C24_Variant(name) ==
    CASE name \in { "bind", "try_bind", "bind_read_only", "try_bind_ready_only" } -> "Bind"
      [] name \in { "dev_bind", "try_dev_bind" } -> "DevBind"
      [] name = "proc_dir" -> "Proc"
      [] name = "dev_dir" -> "Dev"
      [] name = "tmpfs" -> "TempFs"
      [] name = "dir" -> "Dir"
      [] name = "symlink" -> "Symlink"
      [] name = "file" -> "File"
      [] name = "data" -> "Data"

(***************************************************************************)
(* C24: each helper call appends exactly one entry, of the variant the     *)
(* helper is named after, with no permission (and no size): bind,          *)
(* bind_read_only and try_bind give a Bind with (read_only, try) =         *)
(* (false, false), (true, false), (false, true); proc_dir a Proc, dev_dir  *)
(* a Dev, tmpfs a TempFs, dir a Dir, symlink a Symlink, file a File and    *)
(* data a Data.                                                            *)
(***************************************************************************)
C24_Helpers ==
    /\ Len(fs_options) = Len(hist)
    /\ \A i \in 1..Len(hist) :
          LET o == fs_options[i]
              name == hist[i].op
          IN  /\ o.kind = C24_Variant(name)
              /\ o.kind # "Symlink" => o.permission = None
              /\ o.kind = "TempFs" => o.size = None
              /\ name = "bind" => ~o.read_only /\ ~o.try_
              /\ name = "bind_read_only" => o.read_only /\ ~o.try_
              /\ name = "try_bind" => ~o.read_only /\ o.try_
              /\ name = "try_bind_ready_only" => o.read_only /\ o.try_

(***************************************************************************)
(* BwrapCommand::command: the std::process::Command it returns is kept in  *)
(* result, tag being the program it launches and val its arguments.        *)
(***************************************************************************)
Command ==
    /\ \E eo \in Orders(DOMAIN env), uo \in Orders(unset_env) :
         result' = [ fn |-> "command", tag |-> "bwrap", val |-> Argv(eo, uo) ]
    /\ flags' = sanitize_flags(flags, gid, uid, hostname)
    /\ ret' = << >>
    /\ Log(Call("command", "", ""))
    /\ UNCHANGED << bwrap, clear_env, env, unset_env, fs_options, gid, uid,
                    hostname, cwd, program, args, opt, manifest, path_missing,
                    host_files, service >>

InitCommand ==
    /\ New("echo")
    /\ ret = << >>
    /\ hist = << >>
    /\ logging = TRUE
    /\ opt = NoOpt
    /\ NoRunner
    /\ NoService

NextCommand ==
    \/ \E b \in Launchers : Bwrap(b)
    \/ SetCwd("/a")
    \/ Arg("x")
    \/ BuildArgs
    \/ Command

SpecCommand == InitCommand /\ [][NextCommand]_vars

(***************************************************************************)
(* C25: the process description command() returns launches the binary     *)
(* given by the last bwrap(Some(p)) call, and `bwrap` when the last call   *)
(* was bwrap(None) or there was none; its arguments are what build_args    *)
(* returns.                                                                *)
(***************************************************************************)
C25_LauncherOverride ==
    (hist # << >> /\ hist[Len(hist)].op = "command") =>
      /\ result.fn = "command"
      /\ result.tag = IF IsSome(bwrap) THEN Unwrap(bwrap) ELSE "bwrap"
      /\ result.val = (IF IsSome(cwd) THEN << "--chdir", Unwrap(cwd) >> ELSE << >>)
                        \o << "--", program >> \o args

(***************************************************************************)
(* C26: build_args does not change the builder's configuration: a step in  *)
(* which build_args returns leaves every field of the builder, the stored  *)
(* namespace flags among them, as it was, so that what a later sequence of *)
(* setters and build_args returns does not depend on whether build_args    *)
(* was called before.                                                      *)
(***************************************************************************)
C26_LoweringKeepsBuilder == [][ ret' # << >> => builder' = builder ]_vars

(***************************************************************************)
(* The repeated-lowering scenarios: a caller that makes at most MaxCalls   *)
(* calls among namespace, env and arg setters and build_args, every call   *)
(* logged.                                                                 *)
(***************************************************************************)
InitRebuild ==
    /\ New("echo")
    /\ ret = << >>
    /\ hist = << >>
    /\ logging = TRUE
    /\ opt = NoOpt
    /\ NoRunner
    /\ NoService

NextRebuild ==
    \/ \E f \in FlagInputs : AddNamespaceFlags(f)
    \/ \E k \in Keys : AddEnv(k, "a")
    \/ \E k \in Keys : AddUnsetEnv(k)
    \/ ClearEnv(TRUE)
    \/ Arg("x")
    \/ BuildArgs

SpecRebuild == InitRebuild /\ [][NextRebuild]_vars

\* the `--setenv k v` triples, the `--unsetenv k` pairs and the other tokens
\* of an argument vector built from the env and unset_env of the builder
SetenvTriples(v) ==
    LET c == IF clear_env THEN 1 ELSE 0
    IN  { SubSeq(v, c + 3 * i + 1, c + 3 * i + 3) :
            i \in 0..(Cardinality(DOMAIN env) - 1) }
UnsetenvPairs(v) ==
    LET c == (IF clear_env THEN 1 ELSE 0) + 3 * Cardinality(DOMAIN env)
    IN  { SubSeq(v, c + 2 * i + 1, c + 2 * i + 2) :
            i \in 0..(Cardinality(unset_env) - 1) }
AfterEnv(v) ==
    SubSeq(v, (IF clear_env THEN 1 ELSE 0) + 3 * Cardinality(DOMAIN env)
                + 2 * Cardinality(unset_env) + 1, Len(v))

(***************************************************************************)
(* C27: a build_args call that directly follows another returns the same   *)
(* arguments (the same --setenv triples and --unsetenv pairs in any order, *)
(* every other token in place) and leaves the builder as the first call    *)
(* left it; any build_args call takes out of the stored flags only flags   *)
(* among the eight --unshare flags, and sanitizing any set of flags twice  *)
(* gives what sanitizing it once gives.                                    *)
(***************************************************************************)
C27_BuildArgsIdempotent ==
    [][ /\ hist = << >> =>
              \A f \in SUBSET NsFlags :
                 /\ sanitize(sanitize(f)) = sanitize(f)
                 /\ (f \ sanitize(f)) \subseteq UnshareFlags
        /\ ret' # << >> => (flags \ flags') \subseteq UnshareFlags
        /\ (ret # << >> /\ ret' # << >>) =>
              /\ builder' = builder
              /\ Len(ret') = Len(ret)
              /\ SetenvTriples(ret') = SetenvTriples(ret)
              /\ UnsetenvPairs(ret') = UnsetenvPairs(ret)
              /\ AfterEnv(ret') = AfterEnv(ret) ]_vars

\* two env entries and the flags USER and USER_TRY, lowered twice in a row
C27_Witness ==
    /\ Len(hist) = 4
    /\ hist[1].op = "add_namespace_flags"
    /\ hist[2].op = "add_env"
    /\ hist[3].op = "build_args"
    /\ hist[4].op = "build_args"
    /\ flags = { "USER" }
    /\ ret = << "--setenv", "K1", "a", "--unshare-user", "--", "echo" >>

====
